---- MODULE Spec2Model ----
(***************************************************************************)
(* Ripples `imm` tool: the driver of src/tools/imm.cc (command-line check, *)
(* graph load, the four execution branches, the experiment log and the     *)
(* output stream), with the command-line descriptor of                     *)
(* src/include/ripples/configuration.h, and the greedy max-coverage        *)
(* selector over an RR-set collection.                                     *)
(*                                                                         *)
(* The engine (ripples/imm.h), the graph (ripples/graph.h) and the CUDA    *)
(* runtime (ripples/cuda/...) are only called from the sources at hand.    *)
(* A call of IMM is a step that returns any seed list of at most k         *)
(* distinct internal vertices, or never returns (fatal abort).  The        *)
(* selector is written from the design document, section 4.5.              *)
(***************************************************************************)
EXTENDS Integers, Sequences, FiniteSets, TLC

\* ------------------------------------------------------------------ bounds
MaxThreads == 2
MaxWorkers == 2
MaxK == 1
MaxSets == 2
MaxBudget == 2
NumSelVertices == 3

\* ------------------------------------------------------------ input domains
\* The external identifiers of the loaded graph's vertices, by internal
\* index 0, 1, ...: the graph store's internal-to-external table.
ExternalIDTable == << 1, 3 >>

\* Internal vertex indices [0, n) of the loaded graph.
Vertices == 0..(Len(ExternalIDTable) - 1)

\* Vertices of the collections the selector is run on.
SelVertices == 0..(NumSelVertices - 1)

\* The diffusion-model option is a free string: "XX" stands for every string
\* other than "IC" and "LT".
ModelStrings == {"IC", "LT", "XX"}

\* Values of a device-tuning option: left at its default 0, or supplied.  main
\* only compares these options with 0.
TuneValues == {0, 1}

\* ToolConfiguration<IMMConfiguration> after ParseCmdOptions.  The GPU fields
\* keep their defaults (0) unless GPU execution is requested.
Configurations ==
  { c \in [ cuda_parallel : BOOLEAN,
            parallel : BOOLEAN,
            OMPStrongScaling : BOOLEAN,
            diffusionModel : ModelStrings,
            streaming_workers : 0..MaxWorkers,
            streaming_gpu_workers : 0..MaxWorkers,
            cuda_num_threads : TuneValues,
            cuda_block_density : TuneValues,
            cuda_warp_density : TuneValues,
            k : 0..MaxK,
            epsilon : {"eps"},
            OutputFile : {"output.json"} ] :
      ~c.cuda_parallel =>
          /\ c.streaming_workers = 0
          /\ c.streaming_gpu_workers = 0
          /\ c.cuda_num_threads = 0
          /\ c.cuda_block_density = 0
          /\ c.cuda_warp_density = 0 }

VARIABLES
  CFG,            \* the parsed command line
  max_threads,    \* omp_get_max_threads() of the environment
  pc,             \* position in main
  mode,           \* the branch of main taken: none/sweep/parallel/cuda/sequential
  exitStatus,     \* process exit status, Running until the process ends
  console,        \* set of error/warning messages logged
  graphLoaded,    \* loadGraph has returned
  seeds,          \* std::vector seeds of main
  R,              \* IMMExecutionRecord R of main
  executionLog,   \* nlohmann::json executionLog (array)
  num_threads,    \* loop variable of the strong-scaling sweep
  perf,           \* std::ofstream perf: pending (buffered) tokens, put position
  outputFile,     \* the file CFG.OutputFile on disk
  cudaInits,      \* calls of cuda_init so far
  cudaFinis,      \* calls of cuda_fini so far
  engineCalls,    \* history of IMM calls: model, strategy, threads, result
  sel             \* state of the greedy selector

vars == << CFG, max_threads, pc, mode, exitStatus, console, graphLoaded, seeds,
           R, executionLog, num_threads, perf, outputFile, cudaInits,
           cudaFinis, engineCalls, sel >>

driverVars == << CFG, max_threads, pc, mode, exitStatus, console, graphLoaded,
                 seeds, R, executionLog, num_threads, perf, outputFile,
                 cudaInits, cudaFinis, engineCalls >>

Running == [ kind |-> "running", status |-> 0 ]

Exited(n) == [ kind |-> "exited", status |-> n % 256 ]

\* A fatal abort (device error, abort inside the engine, loader failure): the
\* process is killed and main does not return.
Killed == [ kind |-> "killed", status |-> 0 ]

\* A default-constructed IMMExecutionRecord: nothing measured.
DefaultRecord == [ NumThreads |-> 0, Total |-> "default", Telemetry |-> "default" ]

\* The output file before main touches it.
Untouched == [ touched |-> FALSE, data |-> << >> ]

SelOff == [ phase |-> "off" ]

\* ---------------------------------------------------------------- helpers
Max(a, b) == IF a >= b THEN a ELSE b

\* Injective sequences over S of length at most n.
InjSeqs(S, n) ==
  UNION { { s \in [1..m -> S] : \A i, j \in 1..m : i # j => s[i] # s[j] } :
          m \in 0..n }

\* Graph::convertID on one internal index: the external identifier of the
\* vertex.  An argument that is no internal index of the graph reads outside
\* the table: any value may come back.
ExternalID(v) == ExternalIDTable[v + 1]

ExternalIDs == { ExternalID(v) : v \in Vertices }

ConvertOutcomes(v) ==
  IF v \in Vertices THEN { ExternalID(v) } ELSE ExternalIDs \cup Vertices

\* G.convertID(seeds.begin(), seeds.end(), seeds.begin()): the lists the
\* in-place batch conversion of s can produce.
convertID(s) ==
  { t \in [1..Len(s) -> ExternalIDs \cup Vertices] :
      \A i \in 1..Len(s) : t[i] \in ConvertOutcomes(s[i]) }

\* main, lines 108-109, without the comparison of the two counts.
ValidWorkersPositiveOnly(cfg) == cfg.streaming_workers > 0

\* main, lines 108-109.
ValidWorkers(cfg) ==
  /\ cfg.streaming_workers > 0
  /\ cfg.streaming_gpu_workers <= cfg.streaming_workers

\* main, lines 114-115, with || in place of &&.
ValidTuningAnyPositive(cfg) ==
  \/ cfg.cuda_num_threads > 0
  \/ cfg.cuda_block_density > 0
  \/ cfg.cuda_warp_density > 0

ValidTuning(cfg) ==
  /\ cfg.cuda_num_threads > 0
  /\ cfg.cuda_block_density > 0
  /\ cfg.cuda_warp_density > 0

\* main, lines 120-121.
SuppliedTuning(cfg) ==
  \/ cfg.cuda_num_threads # 0
  \/ cfg.cuda_block_density # 0
  \/ cfg.cuda_warp_density # 0

\* The if / else-if chain of main, lines 153, 215, 244, 273.
SelectedMode(cfg) ==
  IF cfg.OMPStrongScaling THEN "sweep"
  ELSE IF cfg.parallel THEN "parallel"
  ELSE IF cfg.cuda_parallel THEN "cuda"
  ELSE "sequential"

\* The execution tag handed to IMM in branch m with loop variable n.
Strategy(m, n) ==
  IF m = "sweep" THEN (IF n # 1 THEN "omp_parallel" ELSE "sequential")
  ELSE IF m = "parallel" THEN "omp_parallel"
  ELSE IF m = "cuda" THEN "cuda_parallel"
  ELSE "sequential"

\* The value assigned to R.NumThreads in branch m (lines 179, 206, 237, 267,
\* 292).
ReportedThreads(m, n, maxT) ==
  IF m = "sweep" THEN n
  ELSE IF m = "parallel" THEN maxT
  ELSE 1

\* GetExperimentRecord.
GetExperimentRecord(cfg, r, s) ==
  [ Algorithm |-> "IMM",
    DiffusionModel |-> cfg.diffusionModel,
    Epsilon |-> cfg.epsilon,
    K |-> cfg.k,
    L |-> 1,
    NumThreads |-> r.NumThreads,
    Total |-> r.Total,
    Telemetry |-> r.Telemetry,
    Seeds |-> s ]

\* executionLog.dump(2) as a token sequence: the opening bracket, one object
\* per element, the closing bracket.
Dump(log) ==
  << [ tok |-> "[" ] >> \o [ i \in 1..Len(log) |-> [ tok |-> "obj", obj |-> log[i] ] ]
     \o << [ tok |-> "]" ] >>

\* A stream opened in append mode: every write lands at the end of the file.
OverlayAppending(data, pos, toks) == data \o toks

\* Writing toks into data at offset pos: bytes under the write are replaced,
\* bytes after it stay.
Overlay(data, pos, toks) ==
  [ i \in 1..Max(Len(data), pos + Len(toks)) |->
      IF i > pos /\ i <= pos + Len(toks) THEN toks[i - pos] ELSE data[i] ]

Prefix(s, n) == SubSeq(s, 1, n)

Suffix(s, n) == SubSeq(s, n + 1, Len(s))

\* The stream after its buffer wrote its first n pending tokens to the file.
FlushStream(p, n) == [ pending |-> Suffix(p.pending, n), pos |-> p.pos + n ]

FlushFile(f, p, n) ==
  [ touched |-> TRUE, data |-> Overlay(f.data, p.pos, Prefix(p.pending, n)) ]

ClosedStream == [ pending |-> << >>, pos |-> 0 ]

\* --------------------------------------------------------------- the driver
\* The seed lists an IMM call with budget k can return: at most k distinct
\* internal vertices.
SeedLists(k) == InjSeqs(Vertices, k)

\* The state after construction: the command line is parsed, nothing has run.
Init ==
  /\ CFG \in Configurations
  /\ max_threads \in 1..MaxThreads
  /\ pc = "check"
  /\ mode = "none"
  /\ exitStatus = Running
  /\ console = {}
  /\ graphLoaded = FALSE
  /\ seeds = << >>
  /\ R = DefaultRecord
  /\ executionLog = << >>
  /\ num_threads = 0
  /\ perf = ClosedStream
  /\ outputFile = Untouched
  /\ cudaInits = 0
  /\ cudaFinis = 0
  /\ engineCalls = << >>
  /\ sel = SelOff

\* main, lines 106-125: the check of the command line.
CheckCommandLine ==
  /\ pc = "check"
  /\ IF CFG.cuda_parallel /\ ~ValidWorkers(CFG)
       THEN /\ console' = console \cup { "error: invalid number of streaming workers" }
            /\ exitStatus' = Exited(-1)
            /\ pc' = "done"
     ELSE IF CFG.cuda_parallel /\ CFG.diffusionModel = "LT" /\ ~ValidTuning(CFG)
       THEN /\ console' = console \cup { "error: invalid CUDA configuration for LT" }
            /\ exitStatus' = Exited(-1)
            /\ pc' = "done"
     ELSE IF CFG.cuda_parallel /\ CFG.diffusionModel = "IC" /\ SuppliedTuning(CFG)
       THEN /\ console' = console \cup { "warn: IC will ignore user-provided CUDA configuration" }
            /\ exitStatus' = exitStatus
            /\ pc' = "load"
     ELSE /\ console' = console
          /\ exitStatus' = exitStatus
          /\ pc' = "load"
  /\ UNCHANGED << CFG, max_threads, mode, graphLoaded, seeds, R, executionLog,
                  num_threads, perf, outputFile, cudaInits, cudaFinis,
                  engineCalls, sel >>

\* main, lines 137-142: the graph is loaded and transposed.
LoadGraph ==
  /\ pc = "load"
  /\ graphLoaded' = TRUE
  /\ pc' = "dispatch"
  /\ UNCHANGED << CFG, max_threads, mode, exitStatus, console, seeds, R,
                  executionLog, num_threads, perf, outputFile, cudaInits,
                  cudaFinis, engineCalls, sel >>

\* main, line 138: the loader fails on its input; the failure is fatal.
LoadGraphFails ==
  /\ pc = "load"
  /\ exitStatus' = Killed
  /\ pc' = "aborted"
  /\ UNCHANGED << CFG, max_threads, mode, console, graphLoaded, seeds, R,
                  executionLog, num_threads, perf, outputFile, cudaInits,
                  cudaFinis, engineCalls, sel >>

\* main, lines 153-158, 215-216, 244-245, 273-274: the branch is chosen and
\* its first statement opens the output stream, which creates or truncates the
\* file.  The sweep also reads the maximum thread count into its loop
\* variable.
OpenOutput ==
  /\ pc = "dispatch"
  /\ mode' = SelectedMode(CFG)
  /\ perf' = ClosedStream
  /\ outputFile' = [ touched |-> TRUE, data |-> << >> ]
  /\ num_threads' = IF mode' = "sweep" THEN max_threads ELSE num_threads
  /\ pc' = IF mode' = "sweep" THEN "loop"
           ELSE IF mode' = "cuda" /\ CFG.diffusionModel \in { "IC", "LT" }
             THEN "cuda_init"
           ELSE "engine"
  /\ UNCHANGED << CFG, max_threads, exitStatus, console, graphLoaded, seeds, R,
                  executionLog, cudaInits, cudaFinis, engineCalls, sel >>

\* main, line 159: the loop test of the sweep.
SweepLoopTest ==
  /\ pc = "loop"
  /\ pc' = IF num_threads >= 1 THEN "engine" ELSE "return"
  /\ UNCHANGED << CFG, max_threads, mode, exitStatus, console, graphLoaded,
                  seeds, R, executionLog, num_threads, perf, outputFile,
                  cudaInits, cudaFinis, engineCalls, sel >>

\* main, lines 247 and 256: cuda_init.
CudaInit ==
  /\ pc = "cuda_init"
  /\ cudaInits' = cudaInits + 1
  /\ pc' = "engine"
  /\ UNCHANGED << CFG, max_threads, mode, exitStatus, console, graphLoaded,
                  seeds, R, executionLog, num_threads, perf, outputFile,
                  cudaFinis, engineCalls, sel >>

\* main, lines 247 and 256: device initialisation fails; the error is fatal.
CudaInitFails ==
  /\ pc = "cuda_init"
  /\ exitStatus' = Killed
  /\ pc' = "aborted"
  /\ UNCHANGED << CFG, max_threads, mode, console, graphLoaded, seeds, R,
                  executionLog, num_threads, perf, outputFile, cudaInits,
                  cudaFinis, engineCalls, sel >>

\* Whether the if / else-if on CFG.diffusionModel around every IMM call
\* (lines 163-177, 188-202, 217-231, 246-264, 275-289) takes a branch.
CallsEngine(cfg) == cfg.diffusionModel = "IC" \/ cfg.diffusionModel = "LT"

\* std::tie(seeds, R) = IMM(...); R.Total = end - start: the call returns a
\* seed list and a filled record, which replace seeds and R.  With a model
\* string that is neither "IC" nor "LT" no branch is taken and seeds and R
\* keep their values.
RunEngine ==
  /\ pc = "engine"
  /\ IF CallsEngine(CFG)
       THEN \E s \in SeedLists(CFG.k) :
              /\ seeds' = s
              /\ R' = [ NumThreads |-> 0, Total |-> "measured",
                        Telemetry |-> "computed" ]
              /\ engineCalls' = Append(engineCalls,
                     [ model |-> CFG.diffusionModel,
                       strategy |-> Strategy(mode, num_threads),
                       threads |-> ReportedThreads(mode, num_threads, max_threads),
                       run |-> Len(executionLog) + 1,
                       seeds |-> s ])
       ELSE UNCHANGED << seeds, R, engineCalls >>
  /\ pc' = IF mode = "cuda" /\ CallsEngine(CFG) THEN "cuda_fini" ELSE "report"
  /\ UNCHANGED << CFG, max_threads, mode, exitStatus, console, graphLoaded,
                  executionLog, num_threads, perf, outputFile, cudaInits,
                  cudaFinis, sel >>

\* An IMM call that never returns: a device error or an abort inside the
\* engine kills the process.  Whether the stack is unwound on the way out is
\* up to the implementation, so any prefix of what the stream still buffers
\* may or may not reach the file.
EngineAborts ==
  /\ pc = "engine"
  /\ CallsEngine(CFG)
  /\ \E n \in 0..Len(perf.pending) :
       /\ outputFile' = FlushFile(outputFile, perf, n)
       /\ perf' = FlushStream(perf, n)
  /\ exitStatus' = Killed
  /\ pc' = "aborted"
  /\ UNCHANGED << CFG, max_threads, mode, console, graphLoaded, seeds, R,
                  executionLog, num_threads, cudaInits, cudaFinis,
                  engineCalls, sel >>

\* main, lines 253 and 262: cuda_fini.
CudaFini ==
  /\ pc = "cuda_fini"
  /\ cudaFinis' = cudaFinis + 1
  /\ pc' = "report"
  /\ UNCHANGED << CFG, max_threads, mode, exitStatus, console, graphLoaded,
                  seeds, R, executionLog, num_threads, perf, outputFile,
                  cudaInits, engineCalls, sel >>

\* main without its call of G.convertID.
UnconvertedSeeds(s) == { s }

\* The seed lists main can hold after its call of G.convertID on s (lines
\* 184, 208, 239, 269, 294).
ConvertedSeeds(s) == convertID(s)

\* main, lines 179-184, 206-208, 234-239, 267-269, 292-294: the thread count
\* is stored in R and the seeds are converted in place.
ConvertSeeds ==
  /\ pc = "report"
  /\ R' = [ R EXCEPT !.NumThreads = ReportedThreads(mode, num_threads, max_threads) ]
  /\ seeds' \in ConvertedSeeds(seeds)
  /\ pc' = "record"
  /\ UNCHANGED << CFG, max_threads, mode, exitStatus, console, graphLoaded,
                  executionLog, num_threads, perf, outputFile, cudaInits,
                  cudaFinis, engineCalls, sel >>

\* The value of the sweep's loop variable after the record is written (line
\* 159, --num_threads on a size_t).  The loop body runs only with n >= 1, so
\* the unsigned decrement never wraps.
NextThreads(n) == n - 1

\* main, lines 185-186 with 212-213, 240-243, 270-272, 295-297: the record is
\* built and appended, and the whole log is written to the stream.  In the
\* sweep the stream is first repositioned to offset 0, which flushes its
\* buffer, and the loop variable is decremented afterwards.  The stream
\* buffer may pass any prefix of what it holds on to the file during the
\* write.
AppendRecord ==
  /\ pc = "record"
  /\ executionLog' = Append(executionLog, GetExperimentRecord(CFG, R, seeds))
  /\ LET sought == IF mode = "sweep"
                     THEN [ file |-> FlushFile(outputFile, perf, Len(perf.pending)),
                            stream |-> ClosedStream ]
                     ELSE [ file |-> outputFile, stream |-> perf ]
         put == [ pending |-> sought.stream.pending \o Dump(executionLog'),
                  pos |-> sought.stream.pos ]
     IN \E n \in 0..Len(put.pending) :
          /\ outputFile' = FlushFile(sought.file, put, n)
          /\ perf' = FlushStream(put, n)
  /\ num_threads' = IF mode = "sweep" THEN NextThreads(num_threads) ELSE num_threads
  /\ pc' = IF mode = "sweep" THEN "loop" ELSE "return"
  /\ UNCHANGED << CFG, max_threads, mode, exitStatus, console, graphLoaded,
                  seeds, R, cudaInits, cudaFinis, engineCalls, sel >>

\* The end of the branch and main, line 300: the stream is destroyed, which
\* flushes and closes it, and main returns EXIT_SUCCESS.
ReturnSuccess ==
  /\ pc = "return"
  /\ outputFile' = FlushFile(outputFile, perf, Len(perf.pending))
  /\ perf' = ClosedStream
  /\ exitStatus' = Exited(0)
  /\ pc' = "done"
  /\ UNCHANGED << CFG, max_threads, mode, console, graphLoaded, seeds, R,
                  executionLog, num_threads, cudaInits, cudaFinis,
                  engineCalls, sel >>

Next ==
  \/ CheckCommandLine
  \/ LoadGraph
  \/ LoadGraphFails
  \/ OpenOutput
  \/ SweepLoopTest
  \/ CudaInit
  \/ CudaInitFails
  \/ RunEngine
  \/ EngineAborts
  \/ CudaFini
  \/ ConvertSeeds
  \/ AppendRecord
  \/ ReturnSuccess

Spec == Init /\ [][Next]_vars

\* ------------------------------------------------------------- the selector
\* Design document, sections 3, 4.4 and 4.5.  A collection is an append-only
\* sequence of RR sets; tally[v] is the number of stored sets containing v
\* that are not marked covered.

\* An RR set holds at least its root.
RRSets == (SUBSET SelVertices) \ { {} }

EmptyTally == [ v \in SelVertices |-> 0 ]

\* The driver while only the selector is exercised.
IdleDriver ==
  /\ CFG = [ cuda_parallel |-> FALSE, parallel |-> FALSE,
             OMPStrongScaling |-> FALSE, diffusionModel |-> "IC",
             streaming_workers |-> 0, streaming_gpu_workers |-> 0,
             cuda_num_threads |-> 0, cuda_block_density |-> 0,
             cuda_warp_density |-> 0, k |-> 0, epsilon |-> "eps",
             OutputFile |-> "output.json" ]
  /\ max_threads = 1
  /\ pc = "off"
  /\ mode = "none"
  /\ exitStatus = Running
  /\ console = {}
  /\ graphLoaded = FALSE
  /\ seeds = << >>
  /\ R = DefaultRecord
  /\ executionLog = << >>
  /\ num_threads = 0
  /\ perf = ClosedStream
  /\ outputFile = Untouched
  /\ cudaInits = 0
  /\ cudaFinis = 0
  /\ engineCalls = << >>

\* An empty collection, nothing selected.
EmptySelector ==
  [ phase |-> "fill", RR |-> << >>, k |-> 0, tally |-> EmptyTally,
    covered |-> {}, result |-> << >> ]

\* Appending one set increments the tally of every member exactly once.
AddToTally(tally, s) ==
  [ v \in SelVertices |-> IF v \in s THEN tally[v] + 1 ELSE tally[v] ]

\* The vertices already selected.
Chosen(st) == { st.result[i].vertex : i \in 1..Len(st.result) }

\* The vertex with the highest remaining tally among those not yet selected,
\* ties broken by the lowest internal index.
BestVertex(st) ==
  LET cand == SelVertices \ Chosen(st)
      top == { v \in cand : \A u \in cand : st.tally[u] <= st.tally[v] }
  IN CHOOSE v \in top : \A u \in top : v <= u

\* The uncovered sets containing v.
NewlyCovered(st, v) ==
  { i \in 1..Len(st.RR) : i \notin st.covered /\ v \in st.RR[i] }

\* The tallies after the sets in newly are marked covered: every member of
\* such a set loses one count per set.
DecrementTalliesSeedOnly(st, newly, v) == [ st.tally EXCEPT ![v] = 0 ]

DecrementTallies(st, newly, v) ==
  [ u \in SelVertices |->
      st.tally[u] - Cardinality({ i \in newly : u \in st.RR[i] }) ]

\* One iteration: the best vertex is selected with its tally as marginal
\* gain, the sets containing it are marked covered and the tallies updated.
SelectStep(st) ==
  LET v == BestVertex(st)
      newly == NewlyCovered(st, v)
  IN [ st EXCEPT !.result = Append(st.result, [ vertex |-> v, gain |-> st.tally[v] ]),
                 !.covered = st.covered \cup newly,
                 !.tally = DecrementTallies(st, newly, v) ]

\* Termination: after k iterations or when no uncovered set remains.
SelectorDoneAfterFirst(st) ==
  \/ Len(st.result) >= st.k /\ Len(st.result) >= 1
  \/ st.covered = 1..Len(st.RR)

SelectorDone(st) ==
  \/ Len(st.result) >= st.k
  \/ st.covered = 1..Len(st.RR)

\* The selector run to termination on a collection with its tallies.
RECURSIVE RunSelector(_)
RunSelector(st) == IF SelectorDone(st) THEN st ELSE RunSelector(SelectStep(st))

RECURSIVE TallyOf(_)
TallyOf(rr) ==
  IF rr = << >> THEN EmptyTally
  ELSE AddToTally(TallyOf(SubSeq(rr, 1, Len(rr) - 1)), rr[Len(rr)])

\* The selector's final state for collection rr and budget k.
Greedy(rr, k) ==
  RunSelector([ phase |-> "select", RR |-> rr, k |-> k, tally |-> TallyOf(rr),
                covered |-> {}, result |-> << >> ])

SelInit ==
  /\ IdleDriver
  /\ sel = EmptySelector

\* A sampled set is appended to the collection.
AppendSet ==
  /\ sel.phase = "fill"
  /\ Len(sel.RR) < MaxSets
  /\ \E s \in RRSets :
       sel' = [ sel EXCEPT !.RR = Append(sel.RR, s),
                           !.tally = AddToTally(sel.tally, s) ]
  /\ UNCHANGED driverVars

\* The selector is started on the collection with a budget.
StartSelect ==
  /\ sel.phase = "fill"
  /\ \E k \in 0..MaxBudget :
       sel' = [ sel EXCEPT !.phase = "select", !.k = k ]
  /\ UNCHANGED driverVars

\* One iteration of the selector.
SelectSeed ==
  /\ sel.phase = "select"
  /\ ~SelectorDone(sel)
  /\ sel' = SelectStep(sel)
  /\ UNCHANGED driverVars

\* The selector terminates.
FinishSelect ==
  /\ sel.phase = "select"
  /\ SelectorDone(sel)
  /\ sel' = [ sel EXCEPT !.phase = "done" ]
  /\ UNCHANGED driverVars

SelNext ==
  \/ AppendSet
  \/ StartSelect
  \/ SelectSeed
  \/ FinishSelect

SelSpec == SelInit /\ [][SelNext]_vars

\* ------------------------------------------------------------------ claims
ExitedWith(n) == exitStatus.kind = "exited" /\ exitStatus.status = n

ExitedNonzero == exitStatus.kind = "exited" /\ exitStatus.status # 0

InvalidWorkerCounts ==
  /\ CFG.cuda_parallel
  /\ \/ CFG.streaming_gpu_workers > CFG.streaming_workers
     \/ CFG.streaming_workers <= 0

\* C1: when GPU execution is requested with a GPU-worker count above the
\* total worker count, or a total worker count that is not positive, the
\* process never gets past the command-line check: it ends there with an
\* error message and a nonzero status, the graph is never loaded, no engine or
\* device call is made, and the output file is never opened or written.
C1_InvalidWorkersRejectedFirst ==
  InvalidWorkerCounts =>
    /\ pc \in { "check", "done" }
    /\ pc = "done" =>
         /\ ExitedNonzero
         /\ "error: invalid number of streaming workers" \in console
    /\ ~graphLoaded
    /\ engineCalls = << >>
    /\ cudaInits = 0 /\ cudaFinis = 0
    /\ executionLog = << >>
    /\ perf = ClosedStream
    /\ outputFile = Untouched

\* A run rejected because the GPU-worker count exceeds a positive total.
C1_Witness ==
  /\ CFG.cuda_parallel
  /\ CFG.streaming_workers > 0
  /\ CFG.streaming_gpu_workers > CFG.streaming_workers
  /\ pc = "done"
  /\ ExitedWith(255)
  /\ outputFile = Untouched

SomeTuningNotPositive ==
  \/ CFG.cuda_num_threads <= 0
  \/ CFG.cuda_block_density <= 0
  \/ CFG.cuda_warp_density <= 0

SomeTuningSupplied ==
  \/ CFG.cuda_num_threads # 0
  \/ CFG.cuda_block_density # 0
  \/ CFG.cuda_warp_density # 0

\* C2: in GPU mode with valid worker counts, once the command-line check is
\* over the run has been rejected (nonzero exit, nothing loaded or sampled)
\* exactly when the model is LT and one of the three tuning options is not
\* positive; with IC the run is never rejected and logs no error, and it logs
\* the warning exactly when a tuning option was supplied.
C2_TuningRequiredOnlyForLT ==
  ( /\ CFG.cuda_parallel
    /\ CFG.streaming_workers > 0
    /\ CFG.streaming_gpu_workers <= CFG.streaming_workers
    /\ pc # "check" ) =>
    /\ ExitedNonzero <=> (CFG.diffusionModel = "LT" /\ SomeTuningNotPositive)
    /\ ExitedNonzero => ~graphLoaded /\ engineCalls = << >> /\ outputFile = Untouched
    /\ CFG.diffusionModel = "IC" =>
         /\ ~ExitedNonzero
         /\ "error: invalid CUDA configuration for LT" \notin console
         /\ ("warn: IC will ignore user-provided CUDA configuration" \in console)
              <=> SomeTuningSupplied

\* A GPU run with IC that was given a tuning option LT would reject, warned
\* and ran to completion on the device.
C2_Witness ==
  /\ CFG.cuda_parallel
  /\ CFG.diffusionModel = "IC"
  /\ SomeTuningSupplied
  /\ SomeTuningNotPositive
  /\ mode = "cuda"
  /\ pc = "done"
  /\ ExitedWith(0)
  /\ "warn: IC will ignore user-provided CUDA configuration" \in console
  /\ Len(engineCalls) = 1

\* C3: on exit with status 0 the output holds the log array, with exactly one
\* object per engine run: one object outside the sweep; in the sweep with
\* maximum thread count T exactly T runs with thread counts T, T-1, ..., 1,
\* multi-threaded above 1 and sequential at 1, and T objects in run order
\* whose NumThreads is the thread count of their run.
C3_OneObjectPerEngineRun ==
  (pc = "done" /\ ExitedWith(0)) =>
    /\ outputFile.data = Dump(executionLog)
    /\ Len(executionLog) = Len(engineCalls)
    /\ mode # "sweep" => Len(executionLog) = 1
    /\ mode = "sweep" =>
         /\ Len(executionLog) = max_threads
         /\ \A i \in 1..max_threads :
              /\ executionLog[i].NumThreads = max_threads - i + 1
              /\ engineCalls[i].run = i
              /\ engineCalls[i].threads = max_threads - i + 1
              /\ engineCalls[i].strategy =
                   IF max_threads - i + 1 > 1 THEN "omp_parallel" ELSE "sequential"

\* The part of C3 that does not depend on the model string: the number of
\* objects, their order and their NumThreads.
SweepRecordsInRunOrder ==
  (pc = "done" /\ ExitedWith(0)) =>
    /\ outputFile.data = Dump(executionLog)
    /\ mode # "sweep" => Len(executionLog) = 1
    /\ mode = "sweep" =>
         /\ Len(executionLog) = max_threads
         /\ \A i \in 1..max_threads :
              executionLog[i].NumThreads = max_threads - i + 1
    /\ CFG.diffusionModel \in { "IC", "LT" } =>
         Len(executionLog) = Len(engineCalls)

\* The external form of a list of internal indices, read off the table.
External(s) == [ j \in 1..Len(s) |-> ExternalIDTable[s[j] + 1] ]

CallsOfRun(i) == { j \in 1..Len(engineCalls) : engineCalls[j].run = i }

\* C4: every record holds the seeds its run's engine call returned, converted
\* to external identifiers exactly once: the seeds are still internal when
\* the call has returned, converted when the record is about to be built, and
\* every record's seed list is the external form of what its call returned
\* (a record without a call holds no seeds).
C4_SeedsConvertedOnce ==
  /\ \A i \in 1..Len(executionLog) :
       /\ \A j \in CallsOfRun(i) :
            executionLog[i].Seeds = External(engineCalls[j].seeds)
       /\ CallsOfRun(i) = {} => executionLog[i].Seeds = << >>
  /\ \A j \in CallsOfRun(Len(executionLog) + 1) :
       /\ pc \in { "cuda_fini", "report" } => seeds = engineCalls[j].seeds
       /\ pc = "record" => seeds = External(engineCalls[j].seeds)

\* A finished sweep of two runs whose records both hold seeds.
C4_Witness ==
  /\ pc = "done"
  /\ mode = "sweep"
  /\ Len(executionLog) = 2
  /\ executionLog[1].Seeds # << >>
  /\ executionLog[2].Seeds # << >>
  /\ Len(engineCalls) = 2

PlannedRuns == IF mode = "sweep" THEN max_threads ELSE 1

\* C5 as stated: once the process has ended, by a fatal abort or by exit, the
\* output file is either untouched or holds the complete result array of the
\* invocation.
C5_NoPartialResult ==
  pc \in { "aborted", "done" } =>
    \/ outputFile = Untouched
    \/ /\ Len(executionLog) = PlannedRuns
       /\ outputFile.data = Dump(executionLog)

\* C5 amended: the file is untouched exactly until an execution branch is
\* entered, which creates or truncates it before the first engine run; from
\* then on every object in the file is the record of a completed run, at its
\* place in run order; after a fatal abort before the first record the file is
\* empty; on exit with status 0 the file holds the complete array, one object
\* per planned run.
C5_FileHoldsCompletedRunsOnly ==
  /\ mode = "none" <=> outputFile = Untouched
  /\ mode # "none" =>
       /\ outputFile.touched
       /\ Len(outputFile.data) <= Len(executionLog) + 2
       /\ \A i \in 1..Len(outputFile.data) :
            /\ i = 1 => outputFile.data[i].tok = "["
            /\ (i > 1 /\ i <= Len(executionLog) + 1) =>
                 \/ outputFile.data[i] = [ tok |-> "obj", obj |-> executionLog[i - 1] ]
                 \/ /\ i = Len(outputFile.data)
                    /\ outputFile.data[i].tok = "]"
            /\ i = Len(executionLog) + 2 => outputFile.data[i].tok = "]"
  /\ (pc = "aborted" /\ executionLog = << >>) => outputFile.data = << >>
  /\ (pc = "done" /\ ExitedWith(0)) =>
       /\ Len(executionLog) = PlannedRuns
       /\ outputFile.data = Dump(executionLog)

\* A sweep killed in its second run: the file exists and holds the record of
\* the first run.
C5_Witness ==
  /\ pc = "aborted"
  /\ mode = "sweep"
  /\ Len(executionLog) = 1
  /\ Len(outputFile.data) >= 2
  /\ outputFile.data[2] = [ tok |-> "obj", obj |-> executionLog[1] ]

\* C9: every record of the log is backed by exactly one engine call, made
\* with the model the record names, which is IC or LT, and holds computed
\* telemetry and a measured total time; an exit with status 0 has at least
\* one engine call behind it.
C9_EveryRecordBackedByEngine ==
  /\ \A i \in 1..Len(executionLog) :
       /\ Cardinality(CallsOfRun(i)) = 1
       /\ \A j \in CallsOfRun(i) :
            engineCalls[j].model = executionLog[i].DiffusionModel
       /\ executionLog[i].DiffusionModel \in { "IC", "LT" }
       /\ executionLog[i].Telemetry = "computed"
       /\ executionLog[i].Total = "measured"
  /\ (pc = "done" /\ ExitedWith(0)) => Len(engineCalls) >= 1

\* C10: the branch taken is the first set flag in the order sweep, parallel,
\* GPU, else sequential; the device is initialised and finalised exactly once
\* each in a finished run of the GPU branch and never otherwise;
\* initialisation precedes the engine call, finalisation follows it and
\* precedes the record.
C10_DeviceOnlyInGpuBranch ==
  /\ mode # "none" =>
       mode = IF CFG.OMPStrongScaling THEN "sweep"
              ELSE IF CFG.parallel THEN "parallel"
              ELSE IF CFG.cuda_parallel THEN "cuda"
              ELSE "sequential"
  /\ mode # "cuda" => cudaInits = 0 /\ cudaFinis = 0
  /\ cudaFinis <= cudaInits /\ cudaInits <= 1
  /\ (mode = "cuda" /\ engineCalls # << >>) => cudaInits = 1
  /\ cudaFinis = 1 => Len(engineCalls) = 1
  /\ (mode = "cuda" /\ executionLog # << >>) => cudaFinis = 1
  /\ (pc = "done" /\ ExitedWith(0) /\ mode = "cuda") =>
       cudaInits = 1 /\ cudaFinis = 1

\* The part of C10 that holds for every model string, and the whole of it
\* for IC and LT.
DeviceBracketsEngine ==
  /\ mode # "none" =>
       mode = IF CFG.OMPStrongScaling THEN "sweep"
              ELSE IF CFG.parallel THEN "parallel"
              ELSE IF CFG.cuda_parallel THEN "cuda"
              ELSE "sequential"
  /\ mode # "cuda" => cudaInits = 0 /\ cudaFinis = 0
  /\ cudaFinis <= cudaInits /\ cudaInits <= 1
  /\ (mode = "cuda" /\ engineCalls # << >>) => cudaInits = 1
  /\ cudaFinis = 1 => Len(engineCalls) = 1
  /\ (mode = "cuda" /\ executionLog # << >> /\ CFG.diffusionModel \in { "IC", "LT" })
       => cudaFinis = 1

RECURSIVE SumGains(_)
SumGains(res) ==
  IF res = << >> THEN 0
  ELSE res[Len(res)].gain + SumGains(SubSeq(res, 1, Len(res) - 1))

SetsHit(rr, res) ==
  { i \in 1..Len(rr) : \E j \in 1..Len(res) : res[j].vertex \in rr[i] }

\* C6: when the selector has terminated, the marginal gains of the selected
\* seeds add up to the number of sets marked covered, which are exactly the
\* sets containing at least one selected seed.
C6_GainsSumToCovered ==
  sel.phase = "done" =>
    /\ SumGains(sel.result) = Cardinality(sel.covered)
    /\ sel.covered = SetsHit(sel.RR, sel.result)

\* A terminated selection of two seeds where a set of the first seed has a
\* second member.
C6_Witness ==
  /\ sel.phase = "done"
  /\ Len(sel.result) = 2
  /\ sel.result[2].gain > 0
  /\ \E i \in 1..Len(sel.RR) :
       /\ sel.result[1].vertex \in sel.RR[i]
       /\ Cardinality(sel.RR[i]) >= 2

CoveredBy(rr, k) == Cardinality(Greedy(rr, k).covered)

\* C8: for the collection at hand and all budgets k1 <= k2, the number of
\* covered sets lies between 0 and the number of sets and is no larger for k1
\* than for k2 (the fractions share their denominator); budget 0 selects no
\* seed and covers nothing; the covered sets are those containing a selected
\* seed, and the selector's own run ends in the state computed for its budget.
C8_CoverageMonotoneInBudget ==
  sel.phase = "done" =>
    /\ \A k1, k2 \in 0..MaxBudget :
         k1 <= k2 =>
           /\ 0 <= CoveredBy(sel.RR, k1)
           /\ CoveredBy(sel.RR, k1) <= CoveredBy(sel.RR, k2)
           /\ CoveredBy(sel.RR, k2) <= Len(sel.RR)
    /\ \A k \in 0..MaxBudget :
         /\ Greedy(sel.RR, k).covered = SetsHit(sel.RR, Greedy(sel.RR, k).result)
         /\ Len(Greedy(sel.RR, k).result) <= k
    /\ Greedy(sel.RR, 0).result = << >>
    /\ CoveredBy(sel.RR, 0) = 0
    /\ sel.result = Greedy(sel.RR, sel.k).result
    /\ sel.covered = Greedy(sel.RR, sel.k).covered

\* A collection on which each extra unit of budget covers strictly more.
C8_Witness ==
  /\ sel.phase = "done"
  /\ sel.k = 2
  /\ CoveredBy(sel.RR, 0) < CoveredBy(sel.RR, 1)
  /\ CoveredBy(sel.RR, 1) < CoveredBy(sel.RR, 2)

====
